---- MODULE Spec2Model ----
(***************************************************************************)
(* CoarseLogProb (src/src/lib.rs): a log probability in [-87.33655, 0]     *)
(* stored as a u16 code.  The conversions are f32 computations, so the     *)
(* model carries IEEE-754 binary32 values bit-exactly: a value is its sign *)
(* bit and the 31 remaining bits (biased exponent and fraction) as one     *)
(* integer, and a product is rounded to nearest, ties to even, as the      *)
(* hardware does.  All integers stay below 2^31.                           *)
(***************************************************************************)
EXTENDS Integers, Sequences, FiniteSets

VARIABLES x, y, a, b, av, bv, ra, ord

vars == <<x, y, a, b, av, bv, ra, ord>>

(***************************************************************************)
(* binary32                                                                *)
(***************************************************************************)
Pow2(n) == 2^n

Max(i, j) == IF i >= j THEN i ELSE j

RECURSIVE BitLen(_)
\* number of significant bits of n >= 0
BitLen(n) == IF n = 0 THEN 0 ELSE 1 + BitLen(n \div 2)

\* an f32: sign bit and the low 31 bits of its representation
F32(s, mag) == [sign |-> s, mag |-> mag]

FracBits == 23
\* least exponent of the unit in the last place (subnormals and 2^-126 binade)
MinEx == -149
\* greatest exponent of the unit in the last place (2^127 binade)
MaxEx == 104

InfMag == 255 * Pow2(FracBits)
NaN == F32(0, InfMag + Pow2(FracBits - 1))
Inf(s) == F32(s, InfMag)
Zero(s) == F32(s, 0)

IsNaN(f) == f.mag > InfMag
IsInf(f) == f.mag = InfMag
IsZero(f) == f.mag = 0
IsFinite(f) == f.mag < InfMag

\* the value of a finite f is (-1)^sign * Sig(f) * 2^Ex(f)
Sig(f) == IF f.mag < Pow2(FracBits) THEN f.mag
          ELSE Pow2(FracBits) + (f.mag % Pow2(FracBits))
Ex(f) == IF f.mag < Pow2(FracBits) THEN MinEx
         ELSE (f.mag \div Pow2(FracBits)) + MinEx - 1

\* the f32 with significand m <= 2^24 and unit 2^e; m < 2^23 only when e = MinEx
Pack(s, m, e) ==
  LET m1 == IF m = Pow2(FracBits + 1) THEN Pow2(FracBits) ELSE m
      e1 == IF m = Pow2(FracBits + 1) THEN e + 1 ELSE e
  IN IF m1 < Pow2(FracBits) THEN F32(s, m1)
     ELSE IF e1 > MaxEx THEN Inf(s)
     ELSE F32(s, (e1 - MinEx + 1) * Pow2(FracBits) + (m1 - Pow2(FracBits)))

\* (H * 2^24 + L) * 2^ex rounded to nearest f32, ties to even; H, L < 2^24
RoundPack(s, H, L, ex) ==
  LET len == IF H > 0 THEN 24 + BitLen(H) ELSE BitLen(L)
      k == Max(len - 24, MinEx - ex)
  IN IF len = 0 THEN Zero(s)
     ELSE IF k <= 0 THEN Pack(s, L * Pow2(-k), ex + k)
     ELSE LET q == IF k <= 24 THEN H * Pow2(24 - k) + (L \div Pow2(k))
                   ELSE IF k <= 48 THEN H \div Pow2(k - 24)
                   ELSE 0
              gt == IF k <= 24 THEN (L % Pow2(k)) > Pow2(k - 1)
                    ELSE IF k <= 48
                      THEN \/ (H % Pow2(k - 24)) > Pow2(k - 25)
                           \/ (H % Pow2(k - 24)) = Pow2(k - 25) /\ L > 0
                    ELSE FALSE
              eq == IF k <= 24 THEN (L % Pow2(k)) = Pow2(k - 1)
                    ELSE IF k <= 48
                      THEN (H % Pow2(k - 24)) = Pow2(k - 25) /\ L = 0
                    ELSE FALSE
              up == gt \/ (eq /\ (q % 2) = 1)
          IN Pack(s, IF up THEN q + 1 ELSE q, ex + k)

\* f * g in f32 (the `*` of lib.rs:51 and lib.rs:63)
Mul(f, g) ==
  LET s == (f.sign + g.sign) % 2
      a1 == Sig(f) \div 4096
      a0 == Sig(f) % 4096
      b1 == Sig(g) \div 4096
      b0 == Sig(g) % 4096
      mid == (a1 * b0) + (a0 * b1)
      low == ((mid % 4096) * 4096) + (a0 * b0)
      L == low % Pow2(24)
      H == (a1 * b1) + (mid \div 4096) + (low \div Pow2(24))
  IN IF IsNaN(f) \/ IsNaN(g) THEN NaN
     ELSE IF IsInf(f) \/ IsInf(g)
       THEN IF IsZero(f) \/ IsZero(g) THEN NaN ELSE Inf(s)
     ELSE IF IsZero(f) \/ IsZero(g) THEN Zero(s)
     ELSE RoundPack(s, H, L, Ex(f) + Ex(g))

\* f < g and f >= g on f32: false when either is NaN, and -0.0 = +0.0
Key(f) == IF f.sign = 1 THEN 0 - f.mag ELSE f.mag
Lt(f, g) == ~IsNaN(f) /\ ~IsNaN(g) /\ Key(f) < Key(g)
Ge(f, g) == ~IsNaN(f) /\ ~IsNaN(g) /\ Key(f) >= Key(g)

\* n as f32, for 0 <= n < 2^24 (exact)
IntToF32(s, n) ==
  IF n = 0 THEN Zero(s)
  ELSE Pack(s, n * Pow2(24 - BitLen(n)), BitLen(n) - 24)

\* truncation where round() was meant
round_trunc(f) ==
  LET k == 0 - Ex(f)
  IN IF ~IsFinite(f) \/ Ex(f) >= 0 THEN f
     ELSE IF k > 24 THEN Zero(f.sign)
     ELSE IntToF32(f.sign, Sig(f) \div Pow2(k))

\* f32::round: to the nearest integer, halves away from zero
round(f) ==
  LET k == 0 - Ex(f)
      q == Sig(f) \div Pow2(k)
      r == Sig(f) % Pow2(k)
  IN IF ~IsFinite(f) \/ Ex(f) >= 0 THEN f
     ELSE IF k > 24 THEN Zero(f.sign)
     ELSE IntToF32(f.sign, IF 2 * r >= Pow2(k) THEN q + 1 ELSE q)

u16_MAX == 65535

\* `as u16`: truncates toward zero and saturates at 0 and u16::MAX; NaN
\* gives 0
as_u16(f) ==
  IF IsNaN(f) \/ f.sign = 1 THEN 0
  ELSE IF IsInf(f) \/ Ex(f) >= 0 THEN u16_MAX
  ELSE IF 0 - Ex(f) > 24 THEN 0
  ELSE IF (Sig(f) \div Pow2(0 - Ex(f))) > u16_MAX THEN u16_MAX
  ELSE Sig(f) \div Pow2(0 - Ex(f))

\* `as f32` of a u16 (exact)
as_f32(n) == IntToF32(0, n)

\* 0f32 - f
ZeroMinus(f) ==
  IF IsNaN(f) THEN NaN
  ELSE IF IsZero(f) THEN Zero(0)
  ELSE F32(1 - f.sign, f.mag)

(***************************************************************************)
(* CoarseLogProb                                                           *)
(***************************************************************************)
\* u16::MAX - 1 where u16::MAX was meant
MIN_below == u16_MAX - 1

MIN == u16_MAX
UNITY == 0

\* -87.33655f32 = 0xC2AEAC50
MIN_FLOAT_VAL == F32(1, 133 * Pow2(FracBits) + 3058768)
\* the step cut to three digits: 0.00133f32 = 0x3AAE5365
INCREMENT_short == F32(0, 117 * Pow2(FracBits) + 3036005)

\* 0.0013326703f32 = 0x3AAEACFF
INCREMENT == F32(0, 117 * Pow2(FracBits) + 3058943)
\* the inverse cut to three digits: -0.0114f32 = 0xBC3AC711
INV_MFV_short == F32(1, 120 * Pow2(FracBits) + 3852049)

\* -0.01144996f32 = 0xBC3B989D
INV_MFV == F32(1, 120 * Pow2(FracBits) + 3905693)

\* scaling by 2^16 where u16::MAX was meant
rounded_pow2(value) == round(Mul(Mul(value, INV_MFV), as_f32(u16_MAX + 1)))

\* (value * INV_MFV * u16::MAX as f32).round(), the f32 that lib.rs:51 casts
rounded(value) == round(Mul(Mul(value, INV_MFV), as_f32(u16_MAX)))

\* the second branch returning MIN, as the first does
from_ceiling_min(value) ==
  IF Lt(value, MIN_FLOAT_VAL) THEN MIN
  ELSE IF Ge(value, Zero(0)) THEN MIN
  ELSE as_u16(rounded(value))

\* the results of the two clamping branches exchanged
from_swapped(value) ==
  IF Lt(value, MIN_FLOAT_VAL) THEN UNITY
  ELSE IF Ge(value, Zero(0)) THEN MIN
  ELSE as_u16(rounded(value))

from(value) ==
  IF Lt(value, MIN_FLOAT_VAL) THEN MIN
  ELSE IF Ge(value, Zero(0)) THEN UNITY
  ELSE as_u16(rounded(value))

\* the subtraction from zero left out
into_positive(code) == Mul(as_f32(code), INCREMENT)

into(code) == ZeroMinus(Mul(as_f32(code), INCREMENT))

\* `<=` where `<` was meant
partial_cmp_le(self, other) ==
  IF self <= other THEN "Greater"
  ELSE IF self > other THEN "Less"
  ELSE "Equal"

\* the order of the codes, not reversed
partial_cmp_natural(self, other) ==
  IF self < other THEN "Less"
  ELSE IF self > other THEN "Greater"
  ELSE "Equal"

partial_cmp(self, other) ==
  IF self < other THEN "Greater"
  ELSE IF self > other THEN "Less"
  ELSE "Equal"

(***************************************************************************)
(* Inputs.  A local that is not bound yet is the empty sequence, a bound   *)
(* one is <<value>>.                                                       *)
(***************************************************************************)
Unset == <<>>
Some(v) == <<v>>
Get(o) == o[1]

\* fractions per binade in the grid of f32 inputs
GridFrac == 4
\* inputs taken this many representable values below and above each key value
MaxUlp == 2
\* sampled codes: multiples of 65536 / CodeGrid, and their neighbours
CodeGrid == 16
\* codes compared with each code: those at most this far from it
MaxGap == 2

Codes == 0 .. u16_MAX

\* every sign, every exponent field (0: subnormals, 255: infinities and NaNs)
GridInputs ==
  { F32(s, (e * Pow2(FracBits)) + ((j * Pow2(FracBits)) \div GridFrac)) :
      s \in 0 .. 1, e \in 0 .. 255, j \in 0 .. GridFrac - 1 }

\* the f32 values at most k representable values away from f, f finite
Near(f, k) ==
  { F32(f.sign, m) : m \in Max(0, f.mag - k) .. f.mag + k }

SampleCodes ==
  { c \in Codes : \E j \in 0 .. CodeGrid, d \in -1 .. 1 :
                    c = ((j * (u16_MAX + 1)) \div CodeGrid) + d }
  \cup { 7504 }

\* -10.0f32 = 0xC1200000 and -100f32 = 0xC2C80000 (lib.rs:86, lib.rs:88)
Neg10 == F32(1, (130 * Pow2(FracBits)) + 2097152)
Neg100 == F32(1, (133 * Pow2(FracBits)) + 4718592)
\* -40.0f32 = 0xC2200000 and -40.001f32 = 0xC2200106 (main.rs:7, main.rs:8)
Neg40 == F32(1, (132 * Pow2(FracBits)) + 2097152)
Neg40_001 == F32(1, (132 * Pow2(FracBits)) + 2097414)

KeyValues == { MIN_FLOAT_VAL, Neg10, Neg100, Neg40, Neg40_001 }

\* the value half a step below code c: where rounding changes from c to c + 1
HalfStep == F32(0, INCREMENT.mag - Pow2(FracBits))
MidValue(c) == ZeroMinus(Mul(as_f32((2 * c) + 1), HalfStep))

Inputs ==
  GridInputs
  \cup UNION { Near(k, MaxUlp) : k \in KeyValues }
  \cup UNION { Near(ZeroMinus(Mul(as_f32(c), INCREMENT)), MaxUlp) : c \in SampleCodes \ {0} }
  \cup UNION { Near(MidValue(c), MaxUlp) : c \in SampleCodes \ {u16_MAX} }

(***************************************************************************)
(* Operations                                                              *)
(***************************************************************************)
\* let a = CoarseLogProb::from(x)
FromX ==
  /\ x # Unset /\ a = Unset
  /\ a' = Some(from(Get(x)))
  /\ UNCHANGED <<x, y, b, av, bv, ra, ord>>

\* let b = CoarseLogProb::from(y)
FromY ==
  /\ y # Unset /\ a # Unset /\ b = Unset
  /\ b' = Some(from(Get(y)))
  /\ UNCHANGED <<x, y, a, av, bv, ra, ord>>

\* let av: f32 = a.into()
IntoA ==
  /\ a # Unset /\ av = Unset
  /\ av' = Some(into(Get(a)))
  /\ UNCHANGED <<x, y, a, b, bv, ra, ord>>

\* let bv: f32 = b.into()
IntoB ==
  /\ b # Unset /\ av # Unset /\ bv = Unset
  /\ bv' = Some(into(Get(b)))
  /\ UNCHANGED <<x, y, a, b, av, ra, ord>>

\* CoarseLogProb::from(av)
FromAv ==
  /\ av # Unset /\ ra = Unset
  /\ ra' = Some(from(Get(av)))
  /\ UNCHANGED <<x, y, a, b, av, bv, ord>>

\* a.partial_cmp(&b)
PartialCmp ==
  /\ a # Unset /\ b # Unset /\ bv # Unset /\ ord = Unset
  /\ ord' = Some(partial_cmp(Get(a), Get(b)))
  /\ UNCHANGED <<x, y, a, b, av, bv, ra>>

\* one f32 converted and converted back
Init ==
  /\ x \in { Some(v) : v \in Inputs }
  /\ y = Unset /\ a = Unset /\ b = Unset
  /\ av = Unset /\ bv = Unset /\ ra = Unset /\ ord = Unset

Next == FromX \/ IntoA

Spec == Init /\ [][Next]_vars

\* a code, any of the 65536 or the code of an f32, converted to f32 and
\* quantized again
InitCode ==
  /\ \/ a \in { Some(c) : c \in Codes } /\ x = Unset
     \/ a = Unset /\ x \in { Some(v) : v \in Inputs }
  /\ y = Unset /\ b = Unset
  /\ av = Unset /\ bv = Unset /\ ra = Unset /\ ord = Unset

NextCode == FromX \/ IntoA \/ FromAv

SpecCode == InitCode /\ [][NextCode]_vars

\* the zeros, and the first values that round to code 1 and to code 65535
PairAnchors ==
  KeyValues \cup { Zero(0), Zero(1), MidValue(0), MidValue(u16_MAX - 1) }

\* two f32 converted, the second near the first or one of the anchors
InitPair ==
  /\ x \in { Some(v) : v \in Inputs }
  /\ y \in { Some(w) : w \in Near(Get(x), MaxUlp) \cup PairAnchors }
  /\ a = Unset /\ b = Unset
  /\ av = Unset /\ bv = Unset /\ ra = Unset /\ ord = Unset

NextPair == FromX \/ FromY

SpecPair == InitPair /\ [][NextPair]_vars

\* the codes a code is compared with: itself and its successor, and for a
\* sampled code its neighbours and the other sampled codes
Partners(c) ==
  ({ c, c + 1 } \cup (IF c \in SampleCodes
                        THEN SampleCodes \cup (c - MaxGap .. c + MaxGap)
                        ELSE {}))
  \cap Codes

\* two codes converted to f32 and compared
InitCmp ==
  /\ a \in { Some(c) : c \in Codes }
  /\ b \in { Some(d) : d \in Partners(Get(a)) }
  /\ x = Unset /\ y = Unset
  /\ av = Unset /\ bv = Unset /\ ra = Unset /\ ord = Unset

NextCmp == IntoA \/ IntoB \/ PartialCmp

SpecCmp == InitCmp /\ [][NextCmp]_vars

(***************************************************************************)
(* Exact comparison of f32 values as real numbers: a magnitude is the      *)
(* integer Sig * 2^(Ex - MinEx), held as base-4096 digits, least first.    *)
(***************************************************************************)
Digit(p, i) == IF i <= Len(p) THEN p[i] ELSE 0

BigOf(f) ==
  LET sh == Ex(f) - MinEx
      t == sh % 12
      x0 == (Sig(f) % 4096) * Pow2(t)
      x1 == ((Sig(f) \div 4096) * Pow2(t)) + (x0 \div 4096)
  IN [i \in 1 .. (sh \div 12) |-> 0] \o <<x0 % 4096, x1 % 4096, x1 \div 4096>>

RECURSIVE AddFrom(_, _, _, _)
AddFrom(p, q, i, c) ==
  IF i > Max(Len(p), Len(q)) THEN <<c>>
  ELSE LET d == Digit(p, i) + Digit(q, i) + c
       IN <<d % 4096>> \o AddFrom(p, q, i + 1, d \div 4096)

BigAdd(p, q) == AddFrom(p, q, 1, 0)

RECURSIVE LeFrom(_, _, _)
LeFrom(p, q, i) ==
  IF i = 0 THEN TRUE
  ELSE IF Digit(p, i) < Digit(q, i) THEN TRUE
  ELSE IF Digit(p, i) > Digit(q, i) THEN FALSE
  ELSE LeFrom(p, q, i - 1)

BigLe(p, q) == LeFrom(p, q, Max(Len(p), Len(q)))

Pos(f) == IF f.sign = 0 THEN BigOf(f) ELSE <<>>
Neg(f) == IF f.sign = 1 THEN BigOf(f) ELSE <<>>

\* |f - g| <= d as real numbers, for finite f, g and d >= 0
Within(f, g, d) ==
  /\ BigLe(BigAdd(Pos(f), Neg(g)), BigAdd(BigAdd(Pos(g), Neg(f)), BigOf(d)))
  /\ BigLe(BigAdd(Pos(g), Neg(f)), BigAdd(BigAdd(Pos(f), Neg(g)), BigOf(d)))

Le(f, g) == Ge(g, f)

\* the order of two f32 values, neither NaN
FloatOrd(f, g) ==
  IF Lt(f, g) THEN "Less" ELSE IF Lt(g, f) THEN "Greater" ELSE "Equal"

\* the inputs from MIN_FLOAT_VAL up to, not including, 0.0: the rounding
\* branch of from(), which NaN also takes
InRounding(v) == Ge(v, MIN_FLOAT_VAL) /\ Lt(v, Zero(0))

(***************************************************************************)
(* Claims                                                                  *)
(***************************************************************************)

\* C1: partial_cmp on two codes is Greater iff self's code is the smaller,
\* Less iff it is the larger, Equal iff the codes are equal: the reverse of
\* the integer order of the codes.
ReversedComparison ==
  ord # Unset =>
    /\ Get(ord) = "Greater" <=> Get(a) < Get(b)
    /\ Get(ord) = "Less" <=> Get(a) > Get(b)
    /\ Get(ord) = "Equal" <=> Get(a) = Get(b)

ReversedComparisonWitness ==
  /\ ord = Some("Less")
  /\ Get(a) = u16_MAX /\ Get(b) = 0

\* C2: every input below MIN_FLOAT_VAL converts to MIN, the code 65535.
ClampFloor ==
  (a # Unset /\ x # Unset /\ Lt(Get(x), MIN_FLOAT_VAL)) => Get(a) = 65535

ClampFloorWitness ==
  /\ x = Some(F32(1, MIN_FLOAT_VAL.mag + 1))
  /\ a = Some(65535)

\* C3: every input >= 0.0, the zeros included, converts to UNITY, the code 0.
ClampCeiling ==
  (a # Unset /\ x # Unset /\ Ge(Get(x), Zero(0))) => Get(a) = 0

ClampCeilingWitness ==
  /\ x \in { Some(Zero(0)), Some(Zero(1)), Some(Inf(0)) }
  /\ a = Some(0)

\* C4: from() is non-increasing: for inputs x <= y <= 0.0, also across the
\* clamping and the rounding branch, the code of x is >= the code of y.
Monotone ==
  (a # Unset /\ b # Unset /\ Le(Get(x), Get(y)) /\ Le(Get(y), Zero(0)))
    => Get(a) >= Get(b)

MonotoneWitness ==
  /\ a # Unset /\ b # Unset
  /\ Lt(Get(x), MIN_FLOAT_VAL) /\ InRounding(Get(y))
  /\ Get(a) > Get(b)

\* C5: for an input in [MIN_FLOAT_VAL, 0.0], converting it and converting
\* the code back gives a value at most one INCREMENT away from the input.
RoundTrip ==
  (av # Unset /\ x # Unset
     /\ Ge(Get(x), MIN_FLOAT_VAL) /\ Le(Get(x), Zero(0)))
    => Within(Get(av), Get(x), INCREMENT)

\* an input more than a quarter of a step away from the value of its code
RoundTripWitness ==
  /\ av # Unset /\ x # Unset
  /\ InRounding(Get(x))
  /\ ~Within(Get(av), Get(x), F32(0, INCREMENT.mag - (2 * Pow2(FracBits))))

\* C6: from() gives a code in 0..65535 for every input, and in the rounding
\* branch the rounded product itself lies between 0 and 65535.
CodeInRange ==
  (a # Unset /\ x # Unset) =>
    /\ Get(a) \in 0 .. 65535
    /\ InRounding(Get(x)) =>
         /\ Ge(rounded(Get(x)), Zero(0))
         /\ Le(rounded(Get(x)), as_f32(65535))

CodeInRangeWitness ==
  /\ a # Unset
  /\ x = Some(MIN_FLOAT_VAL)
  /\ rounded(Get(x)) = as_f32(65535)

\* C7: partial_cmp on two codes is the order of the two decoded f32 values:
\* the smaller code decodes to the strictly greater value.
OrderOfValues ==
  ord # Unset => Get(ord) = FloatOrd(Get(av), Get(bv))

OrderOfValuesWitness ==
  /\ ord = Some("Greater")
  /\ Get(b) = Get(a) + 1
  /\ Lt(Get(bv), Get(av))

\* C8: from(0.0) is code 0, from(-10.0) is 7504, from(-87.33655) is 65535
\* by the rounding branch, and from(-100.0) is 65535.
BoundaryLiterals ==
  a # Unset =>
    /\ x = Some(Zero(0)) => Get(a) = 0
    /\ x = Some(Neg10) => Get(a) = 7504
    /\ x = Some(MIN_FLOAT_VAL) =>
         /\ Get(a) = 65535
         /\ InRounding(Get(x))
         /\ rounded(Get(x)) = as_f32(65535)
    /\ x = Some(Neg100) => Get(a) = 65535

BoundaryLiteralsWitness ==
  /\ x = Some(Neg10)
  /\ a = Some(7504)

\* C9: into() of UNITY is exactly 0.0, and into() of MIN is at most one
\* INCREMENT away from -87.33655.
ConstantConsistency ==
  av # Unset =>
    /\ Get(a) = 0 => Get(av) = Zero(0)
    /\ Get(a) = 65535 => Within(Get(av), MIN_FLOAT_VAL, INCREMENT)

ConstantConsistencyWitness ==
  /\ a = Some(65535)
  /\ av # Unset
  /\ IsFinite(Get(av)) /\ Get(av).sign = 1

\* C10: converting a code to f32 and quantizing the result gives the code
\* again, for every code, the ends 0 and 65535 included, and so for the code
\* of every input.
StableOnCodes ==
  ra # Unset => Get(ra) = Get(a)

StableOnCodesWitness ==
  /\ ra # Unset
  /\ Get(a) = 65534
  /\ Get(ra) = 65534

====
